---- MODULE Spec2Model ----
(***************************************************************************)
(* QR-Scan-Media-Uploader: the Flask route handlers of app.py over the     *)
(* User and Media tables, the login session and the remote object store.   *)
(* One action per route; a request is served whole, except in ConcSpec.    *)
(*                                                                         *)
(* Spec            every route with every input                            *)
(* AuthSpec        setup, register, login, logout from the empty database  *)
(* UploadSpec      upload with every input, next to login and logout       *)
(* VisibilitySpec  uploads, the views, the toggles and delete              *)
(* CatalogSpec     the media routes with remote and commit faults          *)
(* GuardSpec       every route, small inputs, no faults                    *)
(* ConcSpec        setup and register of several workers, interleaved at   *)
(*                 their database statements (query, commit)               *)
(***************************************************************************)
EXTENDS Integers, Sequences, FiniteSets, TLC

\* ------------------------------------------------------------ bounds
\* User rows ever inserted (the serial primary key never exceeds it).
MaxUserRows == 3
\* Media rows ever inserted, and so remote objects ever uploaded.
MaxMediaRows == 2
\* Length of the media_ids list of a bulk request.
MaxIdList == 2
\* GuardSpec: User rows ever inserted, Media rows ever inserted, length of an id list.
GuardUserRows == 2
GuardMediaRows == 1
GuardIdList == 1
\* ConcSpec: User rows ever inserted.
ConcUserRows == 3

\* ------------------------------------------------------------ inputs
\* The file field of an upload: a FileStorage [filename, content, mimetype].
Files == {[filename |-> "a.png", content |-> <<137, 80, 78>>, mimetype |-> "image/png"],
          [filename |-> "", content |-> <<>>, mimetype |-> "application/octet-stream"]}
UploaderNames == {"guest"}
Descriptions == {"note"}
\* Ids a request may name: those a row can have, and one no row has.
MediaIdInputs == (1 .. MaxMediaRows) \cup {999}
\* What goes wrong in a bulk_delete: nothing, the k-th destroy call raises, the commit raises.
BulkFaults == {<<"none", 0>>, <<"commit", 0>>} \cup {<<"destroy", k>> : k \in 1 .. MaxIdList}
IdLists == UNION {[1 .. n -> MediaIdInputs] : n \in 0 .. MaxIdList}

Clients == {"c1", "c2"}
Usernames == {"alice", "bob"}
Passwords == {"pw1", "pw2"}

\* A form field: absent (form.get gives None) or present with a string.
Absent == <<>>
Field(s) == <<s>>
FormValues(S) == {Absent, Field("")} \cup {Field(s) : s \in S}
\* Python truthiness of a form value: None and "" are falsy.
Falsy(v) == v = Absent \/ v[1] = ""

\* ------------------------------------------------------------ state
VARIABLES
    users,        \* User table: rows [id, username, password]
    nextUserId,   \* the serial of User.id
    session,      \* per client: <<>> or <<user id>> (flask-login's session)
    media,        \* Media table
    nextMediaId,  \* the serial of Media.id
    remote,       \* public_ids of the objects the remote store holds
    nextPublicId, \* source of fresh public_ids
    inflight,     \* ConcSpec: requests between two database statements
    last          \* the last request served: its inputs, response and the state before

vars == <<users, nextUserId, session, media, nextMediaId, remote, nextPublicId,
          inflight, last>>

\* ------------------------------------------------------------ helpers
\* The random salt of a hash: fresh for every hash made (one per User row inserted).
gensalt(n) == <<"salt", n>>

\* werkzeug's generate_password_hash: a salted digest, never the plain text.
generate_password_hash(password, salt) ==
    [method |-> "pbkdf2", salt |-> salt, digest |-> <<"H", salt, password>>]

\* werkzeug's check_password_hash: rehash with the stored salt and compare.
check_password_hash(pwhash, password) ==
    pwhash.digest = generate_password_hash(password, pwhash.salt).digest

\* User.query.filter_by(username=username): the matching rows.
filter_by_username(tbl, username) == {u \in tbl : u.username = username}

\* User.query.get(id) / load_user.
load_user(tbl, sess) ==
    IF sess = <<>> THEN {} ELSE {u \in tbl : u.id = sess[1]}

\* current_user.is_authenticated for the client's session.
is_authenticated(tbl, sess) == load_user(tbl, sess) /= {}

current_username(tbl, sess) == (CHOOSE u \in load_user(tbl, sess) : TRUE).username

login_requiredOpen(tbl, sess) == TRUE

\* flask-login's @login_required: the view runs only for an authenticated session.
login_required(tbl, sess) == is_authenticated(tbl, sess)

Snapshot ==
    [users |-> users, session |-> session, media |-> media, remote |-> remote]

\* What a request leaves in `last`: calls are the remote-store calls it made, in order.
\* body is what a view lists (Media rows) or an archive holds (entry names).
ServedBody(op, client, args, response, calls, body) ==
    [op |-> op, client |-> client, args |-> args, response |-> response,
     calls |-> calls, body |-> body, pre |-> Snapshot]

Served(op, client, args, response, calls) ==
    ServedBody(op, client, args, response, calls, {})

\* ------------------------------------------------------------ Init
Init ==
    /\ users = {}
    /\ nextUserId = 1
    /\ session = [c \in Clients |-> <<>>]
    /\ media = {}
    /\ nextMediaId = 1
    /\ remote = {}
    /\ nextPublicId = 1
    /\ inflight = {}
    /\ last = [op |-> "start", client |-> "none", args |-> <<>>,
               response |-> "none", calls |-> <<>>, body |-> {},
               pre |-> [users |-> {}, session |-> [c \in Clients |-> <<>>],
                                             media |-> {}, remote |-> {}]]

mediaVars == <<media, nextMediaId, remote, nextPublicId>>

\* ------------------------------------------------------------ auth routes
NewUser(id, username, hashed) == [id |-> id, username |-> username, password |-> hashed]

setup_usersKeepExisting(tbl, id, username, hashed) ==
    tbl \cup {NewUser(id, username, hashed)}

\* setup, lines 57-65: delete the existing row of that username, insert the new one.
setup_users(tbl, id, username, hashed) ==
    (tbl \ filter_by_username(tbl, username)) \cup {NewUser(id, username, hashed)}

register_takenNever(tbl, username) == FALSE

\* register, line 82: the username is taken.
register_taken(tbl, username) == filter_by_username(tbl, username) /= {}

\* POST /setup
Setup(c, username, password) ==
        /\ IF Falsy(username) \/ Falsy(password)
           THEN /\ last' = Served("setup", c, [username |-> username, password |-> password],
                                  "render:setup", <<>>)
                /\ UNCHANGED <<users, nextUserId>>
           ELSE /\ nextUserId <= MaxUserRows
                /\ users' = setup_users(users, nextUserId, username[1],
                                        generate_password_hash(password[1], gensalt(nextUserId)))
                /\ nextUserId' = nextUserId + 1
                /\ last' = Served("setup", c, [username |-> username, password |-> password],
                                  "redirect:login", <<>>)
        /\ UNCHANGED <<session, mediaVars, inflight>>

\* POST /register
Register(c, username, password) ==
        /\ IF Falsy(username) \/ Falsy(password) \/ register_taken(users, username[1])
           THEN /\ last' = Served("register", c, [username |-> username, password |-> password],
                                  "redirect:register", <<>>)
                /\ UNCHANGED <<users, nextUserId>>
           ELSE /\ nextUserId <= MaxUserRows
                /\ users' = users \cup {NewUser(nextUserId, username[1],
                                                generate_password_hash(password[1], gensalt(nextUserId)))}
                /\ nextUserId' = nextUserId + 1
                /\ last' = Served("register", c, [username |-> username, password |-> password],
                                  "redirect:login", <<>>)
        /\ UNCHANGED <<session, mediaVars, inflight>>

\* login, lines 103-104: the row the credentials select; {} when they select none;
\* check_password_hash(.., None) raises, which the caller sees as "raise".
login_outcome(tbl, username, password) ==
    LET found == IF username = Absent THEN {} ELSE filter_by_username(tbl, username[1])
    IN  IF found = {} THEN "invalid"
        ELSE IF password = Absent THEN "raise"
        ELSE IF check_password_hash((CHOOSE u \in found : TRUE).password, password[1])
             THEN "ok" ELSE "invalid"

\* POST /login
Login(c, username, password) ==
        LET args == [username |-> username, password |-> password]
            out == login_outcome(users, username, password)
        IN  /\ IF users = {}
               THEN /\ last' = Served("login", c, args, "redirect:setup", <<>>)
                    /\ UNCHANGED session
               ELSE IF out = "ok"
               THEN /\ session' = [session EXCEPT ![c] =
                                     <<(CHOOSE u \in filter_by_username(users, username[1]) : TRUE).id>>]
                    /\ last' = Served("login", c, args, "redirect:manage", <<>>)
               ELSE /\ last' = Served("login", c, args,
                                      IF out = "raise" THEN "error:500" ELSE "render:login", <<>>)
                    /\ UNCHANGED session
            /\ UNCHANGED <<users, nextUserId, mediaVars, inflight>>

\* GET /logout (login_required)
Logout(c) ==
    /\ IF login_required(users, session[c])
       THEN /\ session' = [session EXCEPT ![c] = <<>>]
            /\ last' = Served("logout", c, <<>>, "redirect:gallery", <<>>)
       ELSE /\ last' = Served("logout", c, <<>>, "redirect:login", <<>>)
            /\ UNCHANGED session
    /\ UNCHANGED <<users, nextUserId, mediaVars, inflight>>


\* ------------------------------------------------------------ remote store
PublicId(n) == <<"obj", n>>
SecureUrl(pid) == <<"https://res.cloudinary.com", pid>>

\* cloudinary.uploader.destroy(public_id): raises on a transport or API fault;
\* otherwise answers "ok" when it destroyed the object, "not found" when there is none.
destroy_result(rem, pid, fault) ==
    IF fault THEN "raise" ELSE IF pid \in rem THEN "ok" ELSE "not found"

DestroyCall(pid, result) == [call |-> "destroy", public_id |-> pid, result |-> result]
UploadCall(pid, result) == [call |-> "upload", public_id |-> pid, result |-> result]

\* ------------------------------------------------------------ media routes
Media_get(tbl, id) == {m \in tbl : m.id = id}

\* upload, line 129.
upload_uploader_name(tbl, sess, form_name) ==
    IF is_authenticated(tbl, sess) THEN current_username(tbl, sess)
    ELSE IF form_name = Absent THEN "Anonymous" ELSE form_name[1]

NewMediaWrongUrl(id, file, result, uploader, description) ==
    [id |-> id, filename |-> file.filename, url |-> SecureUrl(PublicId(0)),
     public_id |-> result.public_id, is_visible |-> TRUE, uploaded_by |-> uploader,
     description |-> description, size |-> Len(file.content), mimetype |-> file.mimetype]

\* upload, lines 143-151 (is_visible takes the column default, line 35).
NewMedia(id, file, result, uploader, description) ==
    [id |-> id, filename |-> file.filename, url |-> result.secure_url,
     public_id |-> result.public_id, is_visible |-> TRUE, uploaded_by |-> uploader,
     description |-> description, size |-> Len(file.content), mimetype |-> file.mimetype]

\* POST /upload
Upload(c, file, form_name, description, remote_ok) ==
        LET args == [file |-> file, uploader_name |-> form_name, description |-> description]
            pid == PublicId(nextPublicId)
            result == [secure_url |-> SecureUrl(pid), public_id |-> pid]
        IN  /\ IF file = Absent \/ file[1].filename = ""
               THEN /\ last' = Served("upload", c, args, "render:upload", <<>>)
                    /\ UNCHANGED mediaVars
               ELSE IF ~remote_ok
               THEN /\ last' = Served("upload", c, args, "redirect:upload",
                                      <<UploadCall(pid, "raise")>>)
                    /\ UNCHANGED mediaVars
               ELSE /\ nextMediaId <= MaxMediaRows
                    /\ remote' = remote \cup {pid}
                    /\ nextPublicId' = nextPublicId + 1
                    /\ media' = media \cup
                         {NewMedia(nextMediaId, file[1], result,
                                   upload_uploader_name(users, session[c], form_name),
                                   description)}
                    /\ nextMediaId' = nextMediaId + 1
                    /\ last' = Served("upload", c, args, "redirect:gallery",
                                      <<UploadCall(pid, "ok")>>)
            /\ UNCHANGED <<users, nextUserId, session, inflight>>

gallery_mediasAll(tbl) == tbl

\* gallery, line 166.
gallery_medias(tbl) == {m \in tbl : m.is_visible = TRUE}

\* manage, line 174.
manage_medias(tbl) == tbl

\* GET /gallery
Gallery(c) ==
    /\ last' = ServedBody("gallery", c, <<>>, "render:gallery", <<>>, gallery_medias(media))
    /\ UNCHANGED <<users, nextUserId, session, mediaVars, inflight>>

\* GET /manage (login_required)
Manage(c) ==
    /\ last' = IF login_required(users, session[c])
               THEN ServedBody("manage", c, <<>>, "render:manage", <<>>, manage_medias(media))
               ELSE Served("manage", c, <<>>, "redirect:login", <<>>)
    /\ UNCHANGED <<users, nextUserId, session, mediaVars, inflight>>

\* delete, lines 183-185: the table once destroy has returned `result` (any value:
\* the handler does not look at it) and the commit went through.
delete_rows(tbl, row, result) == tbl \ {row}

\* GET /delete/<id> (login_required)
Delete(c, id, fault) ==
        LET found == Media_get(media, id)
            row == CHOOSE m \in found : TRUE
            result == destroy_result(remote, row.public_id, fault = "destroy")
            commit_ok == fault /= "commit"
        IN  /\ IF ~login_required(users, session[c])
               THEN /\ last' = Served("delete", c, [id |-> id], "redirect:login", <<>>)
                    /\ UNCHANGED <<media, remote>>
               ELSE IF found = {}
               THEN /\ last' = Served("delete", c, [id |-> id], "redirect:manage", <<>>)
                    /\ UNCHANGED <<media, remote>>
               ELSE IF result = "raise"
               THEN /\ last' = Served("delete", c, [id |-> id], "error:500",
                                      <<DestroyCall(row.public_id, result)>>)
                    /\ UNCHANGED <<media, remote>>
               ELSE /\ remote' = remote \ {row.public_id}
                    /\ media' = IF commit_ok THEN delete_rows(media, row, result) ELSE media
                    /\ last' = Served("delete", c, [id |-> id],
                                      IF commit_ok THEN "redirect:manage" ELSE "error:500",
                                      <<DestroyCall(row.public_id, result)>>)
            /\ UNCHANGED <<users, nextUserId, session, nextMediaId, nextPublicId, inflight>>

\* toggle_visibility, line 195, on the row of that id.
toggle_row(tbl, id) ==
    {IF m.id = id THEN [m EXCEPT !.is_visible = ~m.is_visible] ELSE m : m \in tbl}

\* GET /toggle_visibility/<id> (login_required)
ToggleVisibility(c, id) ==
        /\ IF ~login_required(users, session[c])
           THEN /\ last' = Served("toggle_visibility", c, [id |-> id], "redirect:login", <<>>)
                /\ UNCHANGED media
           ELSE /\ media' = toggle_row(media, id)
                /\ last' = Served("toggle_visibility", c, [id |-> id], "redirect:manage", <<>>)
        /\ UNCHANGED <<users, nextUserId, session, nextMediaId, remote, nextPublicId, inflight>>

\* download_selected, lines 210-214: the archive's entry names, in the order written.
RECURSIVE download_entries(_, _)
download_entries(tbl, ids) ==
    IF ids = <<>> THEN <<>>
    ELSE LET found == Media_get(tbl, Head(ids))
         IN  (IF found = {} THEN <<>> ELSE <<(CHOOSE m \in found : TRUE).filename>>)
             \o download_entries(tbl, Tail(ids))

\* POST /download_selected (login_required)
DownloadSelected(c, ids) ==
        /\ last' = IF ~login_required(users, session[c])
                   THEN Served("download_selected", c, [media_ids |-> ids], "redirect:login", <<>>)
                   ELSE IF ids = <<>>
                   THEN Served("download_selected", c, [media_ids |-> ids], "redirect:manage", <<>>)
                   ELSE ServedBody("download_selected", c, [media_ids |-> ids],
                                   "attachment:selected_media.zip", <<>>,
                                   download_entries(media, ids))
        /\ UNCHANGED <<users, nextUserId, session, mediaVars, inflight>>

bulk_toggle_loopFirstOnly(tbl, ids) ==
    IF ids = <<>> THEN tbl ELSE toggle_row(tbl, Head(ids))

\* bulk_toggle_visibility, lines 231-235: one flip per id of the list, in order.
RECURSIVE bulk_toggle_loop(_, _)
bulk_toggle_loop(tbl, ids) ==
    IF ids = <<>> THEN tbl
    ELSE bulk_toggle_loop(toggle_row(tbl, Head(ids)), Tail(ids))

\* POST /bulk_toggle_visibility (login_required)
BulkToggleVisibility(c, ids) ==
        /\ IF ~login_required(users, session[c])
           THEN /\ last' = Served("bulk_toggle_visibility", c, [media_ids |-> ids],
                                  "redirect:login", <<>>)
                /\ UNCHANGED media
           ELSE /\ media' = bulk_toggle_loop(media, ids)
                /\ last' = Served("bulk_toggle_visibility", c, [media_ids |-> ids],
                                  "json:success", <<>>)
        /\ UNCHANGED <<users, nextUserId, session, nextMediaId, remote, nextPublicId, inflight>>

\* bulk_delete, lines 245-249: walks the list; each found row has its remote object
\* destroyed and is marked for deletion. The call numbered fail_at raises (0: none
\* does), which ends the request with nothing committed.
RECURSIVE bulk_delete_loop(_, _, _, _, _, _)
bulk_delete_loop(tbl, ids, rem, marked, calls, fail_at) ==
    IF ids = <<>> THEN [remote |-> rem, marked |-> marked, calls |-> calls, raised |-> FALSE]
    ELSE LET found == Media_get(tbl, Head(ids))
             row == CHOOSE m \in found : TRUE
             result == destroy_result(rem, row.public_id, Len(calls) + 1 = fail_at)
         IN  IF found = {}
             THEN bulk_delete_loop(tbl, Tail(ids), rem, marked, calls, fail_at)
             ELSE IF result = "raise"
             THEN [remote |-> rem, marked |-> marked,
                   calls |-> Append(calls, DestroyCall(row.public_id, result)),
                   raised |-> TRUE]
             ELSE bulk_delete_loop(tbl, Tail(ids), rem \ {row.public_id},
                                   marked \cup {row},
                                   Append(calls, DestroyCall(row.public_id, result)),
                                   fail_at)

\* POST /bulk_delete (login_required)
BulkDelete(c, ids, fault) ==
        LET fail_at == IF fault[1] = "destroy" THEN fault[2] ELSE 0
            commit_ok == fault[1] /= "commit"
            run == bulk_delete_loop(media, ids, remote, {}, <<>>, fail_at)
        IN  /\ IF ~login_required(users, session[c])
               THEN /\ last' = Served("bulk_delete", c, [media_ids |-> ids],
                                      "redirect:login", <<>>)
                    /\ UNCHANGED <<media, remote>>
               ELSE /\ remote' = run.remote
                    /\ media' = IF ~run.raised /\ commit_ok THEN media \ run.marked ELSE media
                    /\ last' = Served("bulk_delete", c, [media_ids |-> ids],
                                      IF ~run.raised /\ commit_ok THEN "json:success"
                                      ELSE "error:500",
                                      run.calls)
            /\ UNCHANGED <<users, nextUserId, session, nextMediaId, nextPublicId, inflight>>

\* ------------------------------------------------------------ specifications
FileInputs == {Absent} \cup {Field(f) : f \in Files}
GoodFile == Field(CHOOSE f \in Files : f.filename /= "")
DescriptionInputs == {Absent} \cup {Field(d) : d \in Descriptions}

\* Every route, every input.
Next ==
    \E c \in Clients :
        \/ \E username \in FormValues(Usernames), password \in FormValues(Passwords) :
              \/ Setup(c, username, password)
              \/ Register(c, username, password)
              \/ Login(c, username, password)
        \/ Logout(c)
        \/ \E file \in FileInputs, form_name \in FormValues(UploaderNames),
              description \in DescriptionInputs, remote_ok \in BOOLEAN :
              Upload(c, file, form_name, description, remote_ok)
        \/ Gallery(c)
        \/ Manage(c)
        \/ \E id \in MediaIdInputs :
              \/ ToggleVisibility(c, id)
              \/ \E fault \in {"none", "destroy", "commit"} : Delete(c, id, fault)
        \/ \E ids \in IdLists :
              \/ DownloadSelected(c, ids)
              \/ BulkToggleVisibility(c, ids)
              \/ \E fault \in BulkFaults : BulkDelete(c, ids, fault)

Spec == Init /\ [][Next]_vars

\* The credential store's routes alone, from the empty database.
AuthNext ==
    \E c \in Clients :
        \/ \E username \in FormValues(Usernames), password \in FormValues(Passwords) :
              \/ Setup(c, username, password)
              \/ Register(c, username, password)
              \/ Login(c, username, password)
        \/ Logout(c)

AuthSpec == Init /\ [][AuthNext]_vars

\* The catalog's routes, served once setup has made the admin alice.
MediaInit ==
    /\ users = {NewUser(1, "alice", generate_password_hash("pw1", gensalt(1)))}
    /\ nextUserId = 2
    /\ session = [c \in Clients |-> <<>>]
    /\ media = {}
    /\ nextMediaId = 1
    /\ remote = {}
    /\ nextPublicId = 1
    /\ inflight = {}
    /\ last = [op |-> "setup", client |-> "c1",
               args |-> [username |-> Field("alice"), password |-> Field("pw1")],
               response |-> "redirect:login", calls |-> <<>>, body |-> {},
               pre |-> [users |-> {}, session |-> [c \in Clients |-> <<>>],
                        media |-> {}, remote |-> {}]]

\* alice's sign-in, with the right and with a wrong password.
AdminLogin(c) ==
    \E password \in {Field(p) : p \in Passwords} : Login(c, Field("alice"), password)

\* Uploads with every input, by signed-in and anonymous clients.
UploadNext ==
    \E c \in Clients :
        \/ AdminLogin(c)
        \/ Logout(c)
        \/ \E file \in FileInputs, form_name \in FormValues(UploaderNames),
              description \in DescriptionInputs, remote_ok \in BOOLEAN :
              Upload(c, file, form_name, description, remote_ok)
        \/ Gallery(c)

UploadSpec == MediaInit /\ [][UploadNext]_vars

\* Uploads, the two views, the two toggles and delete; the remote store and the
\* database answer every call of a delete.
VisibilityNext ==
    \E c \in Clients :
        \/ AdminLogin(c)
        \/ Logout(c)
        \/ \E remote_ok \in BOOLEAN : Upload(c, GoodFile, Absent, Absent, remote_ok)
        \/ Gallery(c)
        \/ Manage(c)
        \/ \E id \in MediaIdInputs :
              \/ ToggleVisibility(c, id)
              \/ Delete(c, id, "none")
        \/ \E ids \in IdLists : BulkToggleVisibility(c, ids)

VisibilitySpec == MediaInit /\ [][VisibilityNext]_vars

\* The catalog's routes over uploads that differ only in who made them, with the
\* faults of the remote store and of the commit.
CatalogNext ==
    \E c \in Clients :
        \/ AdminLogin(c)
        \/ Logout(c)
        \/ \E remote_ok \in BOOLEAN : Upload(c, GoodFile, Absent, Absent, remote_ok)
        \/ Gallery(c)
        \/ Manage(c)
        \/ \E id \in MediaIdInputs :
              \/ ToggleVisibility(c, id)
              \/ \E fault \in {"none", "destroy", "commit"} : Delete(c, id, fault)
        \/ \E ids \in IdLists :
              \/ BulkToggleVisibility(c, ids)
              \/ \E fault \in BulkFaults : BulkDelete(c, ids, fault)

CatalogSpec == MediaInit /\ [][CatalogNext]_vars

\* Every route, over one username, one file and short id lists; the remote store
\* and the database answer every call.
GuardIds == (1 .. GuardMediaRows) \cup {999}
GuardIdLists == UNION {[1 .. n -> GuardIds] : n \in 0 .. GuardIdList}

GuardNext ==
    \E c \in Clients :
        \/ \E password \in {Field(p) : p \in Passwords} :
              \/ nextUserId <= GuardUserRows /\ Setup(c, Field("alice"), password)
              \/ nextUserId <= GuardUserRows /\ Register(c, Field("alice"), password)
              \/ Login(c, Field("alice"), password)
        \/ Logout(c)
        \/ nextMediaId <= GuardMediaRows /\ Upload(c, GoodFile, Absent, Absent, TRUE)
        \/ Gallery(c)
        \/ Manage(c)
        \/ \E id \in GuardIds :
              \/ ToggleVisibility(c, id)
              \/ Delete(c, id, "none")
        \/ \E ids \in GuardIdLists :
              \/ DownloadSelected(c, ids)
              \/ BulkToggleVisibility(c, ids)
              \/ BulkDelete(c, ids, <<"none", 0>>)

GuardSpec == Init /\ [][GuardNext]_vars

\* ------------------------------------------------------------ concurrent workers
\* setup and register of several workers, one database statement at a time. A
\* request in flight: [client, op, username, password, existing, pc].
Pending(c) == {r \in inflight : r.client = c}
Idle(c) == Pending(c) = {}

notInflight == <<users, nextUserId, session, mediaVars, last>>

\* setup, line 57: the query for the existing row (the form is valid).
SetupQuery(c, username, password) ==
    LET existing == filter_by_username(users, username[1])
    IN  /\ Idle(c)
        /\ ~Falsy(username) /\ ~Falsy(password)
        /\ nextUserId + Cardinality(inflight) <= ConcUserRows
        /\ inflight' = inflight \cup
             {[client |-> c, op |-> "setup", username |-> username[1],
               password |-> password[1], existing |-> existing,
               pc |-> IF existing = {} THEN "add" ELSE "delete"]}
        /\ UNCHANGED notInflight

\* setup, lines 59-60: delete the row found and commit.
SetupDeleteCommit(c) ==
    \E r \in Pending(c) :
        /\ r.op = "setup" /\ r.pc = "delete"
        /\ users' = users \ r.existing
        /\ inflight' = (inflight \ {r}) \cup {[r EXCEPT !.pc = "add"]}
        /\ UNCHANGED <<nextUserId, session, mediaVars, last>>

\* setup lines 62-65, register lines 86-89: insert and commit. The unique
\* username (line 27) makes the commit raise when the name is taken by then.
AddCommit(c) ==
    \E r \in Pending(c) :
        LET args == [username |-> Field(r.username), password |-> Field(r.password)]
        IN  /\ r.pc = "add"
            /\ IF register_taken(users, r.username)
               THEN /\ last' = ServedBody(r.op, c, args, "error:500", <<>>, r.existing)
                    /\ UNCHANGED <<users, nextUserId>>
               ELSE /\ users' = users \cup
                         {NewUser(nextUserId, r.username,
                                  generate_password_hash(r.password, gensalt(nextUserId)))}
                    /\ nextUserId' = nextUserId + 1
                    /\ last' = ServedBody(r.op, c, args, "redirect:login", <<>>, r.existing)
            /\ inflight' = inflight \ {r}
            /\ UNCHANGED <<session, mediaVars>>

\* register, line 82: the query for a row of that username (the form is valid).
RegisterQuery(c, username, password) ==
    /\ Idle(c)
    /\ ~Falsy(username) /\ ~Falsy(password)
    /\ nextUserId + Cardinality(inflight) <= ConcUserRows
    /\ IF register_taken(users, username[1])
       THEN /\ last' = Served("register", c, [username |-> username, password |-> password],
                              "redirect:register", <<>>)
            /\ UNCHANGED inflight
       ELSE /\ inflight' = inflight \cup
                 {[client |-> c, op |-> "register", username |-> username[1],
                   password |-> password[1], existing |-> {}, pc |-> "add"]}
            /\ UNCHANGED last
    /\ UNCHANGED <<users, nextUserId, session, mediaVars>>

ConcNext ==
    \E c \in Clients :
        \/ \E username \in {Field(u) : u \in Usernames}, password \in {Field(p) : p \in Passwords} :
              \/ SetupQuery(c, username, password)
              \/ RegisterQuery(c, username, password)
              \/ Idle(c) /\ Login(c, username, password)
        \/ SetupDeleteCommit(c)
        \/ AddCommit(c)
        \/ Idle(c) /\ Logout(c)

ConcSpec == Init /\ [][ConcNext]_vars

\* ------------------------------------------------------------ properties
\* Vocabulary of the properties, stated on the tables themselves.
Range(seq) == {seq[i] : i \in DOMAIN seq}
Occurrences(seq, x) == Cardinality({i \in DOMAIN seq : seq[i] = x})
Named(tbl, username) == {u \in tbl : u.username = username}
\* h is a hash of the plain text p.
HashOf(h, p) == h.digest = <<"H", h.salt, p>>
\* The client's session names a row of the User table.
SignedIn(tbl, sess, c) == sess[c] /= <<>> /\ \E u \in tbl : u.id = sess[c][1]
Row(tbl, id) == CHOOSE m \in tbl : m.id = id
Ids(tbl) == {m.id : m \in tbl}
ValidForm == ~Falsy(last.args.username) /\ ~Falsy(last.args.password)
Protected == {"manage", "delete", "toggle_visibility", "bulk_toggle_visibility",
              "bulk_delete", "download_selected"}

\* C1: register(u, p) with u unused creates the one user u with password p; a login
\* with the stored user's password signs the client in as u; a register of a taken
\* username is rejected and leaves the User table as it was; no username is ever
\* held by two rows.
C1_RegisterLoginOnce ==
    /\ (last.op = "register" /\ ValidForm
        /\ Named(last.pre.users, last.args.username[1]) = {})
       => /\ last.response = "redirect:login"
          /\ Cardinality(Named(users, last.args.username[1])) = 1
          /\ \A u \in Named(users, last.args.username[1]) :
                HashOf(u.password, last.args.password[1])
          /\ last.pre.users \subseteq users
    /\ (last.op = "login" /\ ValidForm)
       => \A u \in Named(last.pre.users, last.args.username[1]) :
             HashOf(u.password, last.args.password[1])
             => /\ last.response = "redirect:manage"
                /\ session[last.client] = <<u.id>>
                /\ SignedIn(users, session, last.client)
    /\ (last.op = "register" /\ ValidForm
        /\ Named(last.pre.users, last.args.username[1]) /= {})
       => /\ last.response = "redirect:register"
          /\ users = last.pre.users
    /\ \A name \in Usernames : Cardinality(Named(users, name)) <= 1

\* A register of alice is rejected while a client is signed in as the alice
\* registered before, and the rejected password is not hers.
C1_Witness ==
    /\ last.op = "register" /\ ValidForm
    /\ last.response = "redirect:register"
    /\ \E u \in Named(users, last.args.username[1]), c \in Clients :
          /\ session[c] = <<u.id>>
          /\ ~HashOf(u.password, last.args.password[1])

\* C2: after setup(u, p) the User table holds exactly one row named u, its password
\* is a hash of p and of no other password, and the rows of other usernames are
\* the ones from before.
C2_SetupIdempotent ==
    (last.op = "setup" /\ ValidForm)
    => /\ last.response = "redirect:login"
       /\ Cardinality(Named(users, last.args.username[1])) = 1
       /\ \A u \in Named(users, last.args.username[1]) :
             \A p \in Passwords : HashOf(u.password, p) <=> p = last.args.password[1]
       /\ {u \in users : u.username /= last.args.username[1]}
          = {u \in last.pre.users : u.username /= last.args.username[1]}

\* A setup of a username that already had a row with another password, next to a
\* row of another username.
C2_Witness ==
    /\ last.op = "setup" /\ ValidForm
    /\ \E old \in Named(last.pre.users, last.args.username[1]) :
          ~HashOf(old.password, last.args.password[1])
    /\ \E other \in users : other.username /= last.args.username[1]

\* C3: a successful upload adds a row with is_visible true; a toggle_visibility of a
\* visible row leaves it in the table with is_visible false; gallery lists exactly
\* the rows with is_visible true and manage lists every row.
C3_VisibilityListing ==
    /\ (last.op = "upload" /\ last.response = "redirect:gallery")
       => /\ media /= last.pre.media
          /\ \A m \in media \ last.pre.media : m.is_visible = TRUE
    /\ (last.op = "toggle_visibility" /\ last.response = "redirect:manage")
       => \A m \in last.pre.media :
             (m.id = last.args.id /\ m.is_visible = TRUE)
             => [m EXCEPT !.is_visible = FALSE] \in media
    /\ last.op = "gallery"
       => last.body = {m \in media : m.is_visible = TRUE}
    /\ (last.op = "manage" /\ last.response = "render:manage")
       => last.body = media

\* A toggle_visibility has just hidden a row that was visible.
C3_Witness ==
    /\ last.op = "toggle_visibility"
    /\ \E m \in last.pre.media :
          /\ m.id = last.args.id /\ m.is_visible = TRUE
          /\ [m EXCEPT !.is_visible = FALSE] \in media

\* C4: delete(id) of an existing row removes the row only when the remote destroy of
\* its public_id answered "ok"; when the destroy raised or answered anything else,
\* the Media table is as it was.
C4_DeleteOnlyIfAcknowledged ==
    (last.op = "delete" /\ last.args.id \in Ids(last.pre.media)
     /\ SignedIn(last.pre.users, last.pre.session, last.client))
    => LET row == Row(last.pre.media, last.args.id)
       IN  /\ row.id \notin Ids(media)
              => last.calls = <<DestroyCall(row.public_id, "ok")>>
           /\ last.calls /= <<DestroyCall(row.public_id, "ok")>>
              => media = last.pre.media

\* C5 (as claimed): after bulk_toggle_visibility every existing row whose id occurs
\* in the list has its is_visible negated, every other row is unchanged, no row is
\* created or deleted and the response is the success acknowledgement.
C5_BulkToggleEveryListed ==
    (last.op = "bulk_toggle_visibility"
     /\ SignedIn(last.pre.users, last.pre.session, last.client))
    => /\ last.response = "json:success"
       /\ media = {IF m.id \in Range(last.args.media_ids)
                   THEN [m EXCEPT !.is_visible = ~m.is_visible] ELSE m
                   : m \in last.pre.media}

\* C5 (amended): after bulk_toggle_visibility every existing row whose id occurs an
\* odd number of times in the list has its is_visible negated, every other row is
\* unchanged, no row is created or deleted and the response is the success
\* acknowledgement.
C5_BulkToggleOddOccurrences ==
    (last.op = "bulk_toggle_visibility"
     /\ SignedIn(last.pre.users, last.pre.session, last.client))
    => /\ last.response = "json:success"
       /\ media = {IF Occurrences(last.args.media_ids, m.id) % 2 = 1
                   THEN [m EXCEPT !.is_visible = ~m.is_visible] ELSE m
                   : m \in last.pre.media}

\* A bulk_toggle_visibility naming an existing row after an id no row has: the row is
\* flipped, and a second row is not.
C5_Witness ==
    /\ last.op = "bulk_toggle_visibility"
    /\ last.response = "json:success"
    /\ Len(last.args.media_ids) = 2
    /\ last.args.media_ids[1] \notin Ids(last.pre.media)
    /\ \E m \in last.pre.media :
          /\ m.id = last.args.media_ids[2]
          /\ [m EXCEPT !.is_visible = ~m.is_visible] \in media
    /\ \E m \in last.pre.media : m.id \notin Range(last.args.media_ids) /\ m \in media

\* C6: an upload whose remote call raised leaves the Media table (and the remote
\* store) as it was; the table changes only when the remote upload returned, and
\* then by exactly one new row carrying the returned URL and public_id.
C6_UploadRowOnlyAfterRemote ==
    last.op = "upload"
    => /\ (last.calls = <<>> \/ last.calls[1].result = "raise")
          => (media = last.pre.media /\ remote = last.pre.remote)
       /\ (last.calls /= <<>> /\ last.calls[1].result = "ok")
          => /\ last.pre.media \subseteq media
             /\ Cardinality(media \ last.pre.media) = 1
             /\ \A m \in media \ last.pre.media :
                   /\ m.public_id = last.calls[1].public_id
                   /\ m.url = SecureUrl(last.calls[1].public_id)
                   /\ m.public_id \in remote
                   /\ m.public_id \notin last.pre.remote
                   /\ m.id \notin Ids(last.pre.media)

\* An upload's remote call has raised while the table holds an earlier upload.
C6_Witness ==
    /\ last.op = "upload"
    /\ last.calls /= <<>> /\ last.calls[1].result = "raise"
    /\ media /= {}

\* C7: a successful upload records the session's username when the client is signed
\* in, else the uploader_name of the form when it names someone, else "Anonymous".
C7_UploadedBy ==
    (last.op = "upload" /\ last.response = "redirect:gallery")
    => \A m \in media \ last.pre.media :
          m.uploaded_by =
             IF SignedIn(last.pre.users, last.pre.session, last.client)
             THEN (CHOOSE u \in last.pre.users :
                      u.id = last.pre.session[last.client][1]).username
             ELSE IF ~Falsy(last.args.uploader_name) THEN last.args.uploader_name[1]
             ELSE "Anonymous"

\* C8: a protected route asked by a client that is not signed in changes no Media row
\* and calls no remote destroy; a client is signed in only if it was before the
\* request, or the request was its login with an existing user's name and a password
\* the stored hash verifies; a logout leaves its client signed out.
C8_LoginRequired ==
    /\ (last.op \in Protected
        /\ ~SignedIn(last.pre.users, last.pre.session, last.client))
       => /\ media = last.pre.media
          /\ remote = last.pre.remote
          /\ last.calls = <<>>
          /\ last.response = "redirect:login"
    /\ \A c \in Clients :
          SignedIn(users, session, c)
          => \/ SignedIn(last.pre.users, last.pre.session, c)
                /\ session[c] = last.pre.session[c]
             \/ /\ last.op = "login" /\ last.client = c /\ ValidForm
                /\ \E u \in Named(last.pre.users, last.args.username[1]) :
                      /\ HashOf(u.password, last.args.password[1])
                      /\ session[c] = <<u.id>>
    /\ last.op = "logout" => ~SignedIn(users, session, last.client)

\* A bulk_delete naming an existing row, asked by a client that signed in once and
\* is signed in no more, while another client is signed in.
C8_Witness ==
    /\ last.op = "bulk_delete"
    /\ ~SignedIn(last.pre.users, last.pre.session, last.client)
    /\ last.pre.session[last.client] /= <<>>
    /\ Range(last.args.media_ids) \cap Ids(media) /= {}
    /\ \E c \in Clients : SignedIn(users, session, c)

\* C9: every Media row references a remote object that exists, and a request removes
\* a row only when it has issued the remote destroy of that row's public_id.
C9_RowsReferenceLiveObjects ==
    /\ \A m \in media : m.public_id \in remote
    /\ \A m \in last.pre.media :
          m.id \notin Ids(media)
          => \E i \in DOMAIN last.calls :
             last.calls[i].call = "destroy" /\ last.calls[i].public_id = m.public_id

\* C10: a login never finds username u without a row while a setup that found u's
\* row is in flight, and a setup that found u's row and has ended without an error
\* leaves a row of u with the password it was given.
C10_SingleTransaction ==
    /\ \A r \in inflight :
          (r.op = "setup" /\ r.existing /= {}
           /\ last.op = "login" /\ last.client /= r.client
           /\ last.args.username = Field(r.username))
          => Named(last.pre.users, r.username) /= {}
    /\ (last.op = "setup" /\ last.body /= {})
       => \E u \in Named(users, last.args.username[1]) :
             HashOf(u.password, last.args.password[1])

====
